---- MODULE Spec2Model ----
(***************************************************************************)
(* Model of vexcl/fft.hpp: the FFT functor that binds vex::vector to the   *)
(* AMD FFT library (clAmdFft).  The program state is the global            *)
(* fft_ref_count, the FFT objects (plan, dir), the fft_expr value returned *)
(* by operator(), and the state of the external engine as far as the calls *)
(* of this file change it.  Every member function is one atomic action     *)
(* (sequential use).  Inputs: the status each engine call returns, the     *)
(* lengths and direction of a construction, the buffers of an execute and  *)
(* the size the caller's queue vector has when execute reads it.  An       *)
(* assert that fails ends the process (asserts are compiled in).           *)
(***************************************************************************)
EXTENDS Integers, Sequences, FiniteSets, TLC

\* ---------------------------------------------------------------- bounds
MaxAdapters == 2    \* FFT objects whose construction is attempted
MaxQueues == 2      \* largest size of a caller's queue vector
MaxBufs == 2        \* distinct cl_mem buffer handles

Ids == 1..MaxAdapters
Bufs == 1..MaxBufs

\* ------------------------------------------------------------- constants
CL_SUCCESS == 0
forward == -1
inverse == 1
Directions == {forward, inverse}
\* the direction argument of a constructor: given, or left to its default
Omitted == 0
DirArgs == {Omitted} \cup Directions
\* engine status codes: success and a failure code
Statuses == {CL_SUCCESS, -5}
\* the arrays of lengths a caller passes: sizes 0 and 4 violate the assert
LengthArrays == {<< >>, <<8>>, <<4, 6>>, <<2, 3, 5>>, <<2, 2, 2, 2>>}
\* size_t arithmetic is modular; the counter is modelled 16 bits wide
SizeMod == 65536

VARIABLES
    fft_ref_count,  \* size_t fft_ref_count
    adapters,       \* FFT objects: [state, plan, dir]
    expr,           \* the fft_expr value of the current statement: [f, input]
    engine,         \* clAmdFft: [up, plans, next]
    calls,          \* engine calls made by the last step, in order
    error,          \* cl::Error thrown by the last step, or NoError
    aborted,        \* an assert failed: the process is gone
    lastOp,         \* the last step: operation, object, arguments, count before
    all_ok,         \* no engine call has returned a failure so far
    last_global,    \* the last of Setup/Teardown that was called
    threads,        \* overlapping use: where each thread is inside init or
                    \* ~FFT, and the count it has read
    raced           \* overlapping use: what has happened so far

vars == << fft_ref_count, adapters, expr, engine, calls, error,
           aborted, lastOp, all_ok, last_global, threads, raced >>

\* a thread that is in no constructor and no destructor
Idle == [pc |-> "idle", local |-> 0]
\* overlapped: a constructor or destructor began while another one was
\* running; setup_twice: clAmdFftSetup was called when the last of the two
\* global calls had been clAmdFftSetup as well
NoRace == [overlapped |-> FALSE, setup_twice |-> FALSE]
\* sequential use: one member function at a time, run to its end
Sequential == UNCHANGED << threads, raced >>

NoError == [code |-> CL_SUCCESS, what |-> "none"]
\* round_trip: when the step destroys the object that the step before it
\* constructed, the count before that construction; otherwise -1
\* ndim, dir: the number of lengths and the direction argument of a
\* construction
NoOp == [op |-> "none", id |-> 0, pre |-> 0, input |-> 0, output |-> 0,
         append |-> FALSE, nq |-> 0, round_trip |-> -1, ndim |-> 0, dir |-> 0]
Op(name, a) == [NoOp EXCEPT !.op = name, !.id = a, !.pre = fft_ref_count]

NoObject == [state |-> "Unconfigured", plan |-> 0, dir |-> forward]
NoExpr == [f |-> 0, input |-> 0]

\* ------------------------------------------------------------ the engine
DefaultPlan == [precision |-> "default", layout |-> "default", location |-> "default"]

EngineCall(fn, plan, status) ==
    [fn |-> fn, plan |-> plan, status |-> status, lengths |-> << >>,
     arg |-> "-", dir |-> 0, nq |-> 0, input |-> 0, output |-> 0, loc |-> "-"]

Live(eng, p) == p \in DOMAIN eng.plans
\* loc of a call: the result location the plan has when the call is made,
\* "-" when the handle names no plan
LocationOf(eng, p) == IF Live(eng, p) THEN eng.plans[p].location ELSE "-"

\* the statuses the engine can return for a call on plan handle p: a handle
\* that names no plan is refused
StatusesFor(eng, p) ==
    IF Live(eng, p) THEN Statuses ELSE Statuses \ {CL_SUCCESS}

\* the engine after call c: a call that fails changes nothing
EngineAfter(eng, c) ==
    IF c.status # CL_SUCCESS THEN eng
    ELSE CASE c.fn = "clAmdFftSetup" -> [eng EXCEPT !.up = TRUE]
           [] c.fn = "clAmdFftTeardown" -> [eng EXCEPT !.up = FALSE, !.plans = << >>]
           [] c.fn = "clAmdFftCreateDefaultPlan" ->
                [eng EXCEPT !.plans = (c.plan :> DefaultPlan) @@ @,
                            !.next = @ + 1]
           [] c.fn = "clAmdFftSetPlanPrecision" ->
                [eng EXCEPT !.plans[c.plan].precision = c.arg]
           [] c.fn = "clAmdFftSetLayout" ->
                [eng EXCEPT !.plans[c.plan].layout = c.arg]
           [] c.fn = "clAmdFftSetResultLocation" ->
                [eng EXCEPT !.plans[c.plan].location = c.arg]
           [] c.fn = "clAmdFftDestroyPlan" ->
                [eng EXCEPT !.plans = [h \in DOMAIN @ \ {c.plan} |-> @[h]]]
           [] OTHER -> eng

RECURSIVE EngineRun(_, _)
EngineRun(eng, cs) ==
    IF cs = << >> THEN eng ELSE EngineRun(EngineAfter(eng, Head(cs)), Tail(cs))

\* ---------------------------------------------------------- check_error
\* variant: only positive status codes are taken for failures
check_error_PositiveOnly(status) == status > CL_SUCCESS
\* TRUE when check_error(status) throws
check_error(status) == status # CL_SUCCESS

\* the calls of a straight-line sequence that are made: up to and including
\* the first one whose check_error throws
Executed(cs) ==
    LET bad == {i \in 1..Len(cs) : check_error(cs[i].status)}
    IN IF bad = {} THEN cs
       ELSE SubSeq(cs, 1, CHOOSE i \in bad : \A j \in bad : i <= j)

\* the cl::Error a sequence of made calls ends with
Thrown(cs) ==
    IF cs # << >> /\ check_error(cs[Len(cs)].status)
    THEN [code |-> cs[Len(cs)].status, what |-> "AMD FFT"]
    ELSE NoError

\* the statuses n consecutive calls can return: a call after a failed one is
\* not made, so its status is left at CL_SUCCESS
StatusRuns(n) ==
    {s \in [1..n -> Statuses] :
        \A i \in 1..n : \A j \in 1..n :
            (i < j /\ s[i] # CL_SUCCESS) => s[j] = CL_SUCCESS}
\* init makes up to four calls, the destructor and execute up to two
InitStatuses == StatusRuns(4)
PairStatuses == StatusRuns(2)

AllSuccess(cs) == \A i \in 1..Len(cs) : cs[i].status = CL_SUCCESS
Has(cs, fn) == \E i \in 1..Len(cs) : cs[i].fn = fn
GlobalAfter(g, cs) ==
    IF Has(cs, "clAmdFftTeardown") THEN "clAmdFftTeardown"
    ELSE IF Has(cs, "clAmdFftSetup") THEN "clAmdFftSetup" ELSE g

\* variant: the count is raised only together with the setup call
Inc_OnlyFirst(c) == IF c = 0 THEN 1 ELSE c
\* fft_ref_count++
Inc(c) == (c + 1) % SizeMod
\* variant: the destructor leaves the count alone
Dec_Skip(c) == c
\* --fft_ref_count
Dec(c) == (c - 1) % SizeMod

\* what every step records
Record(op, cs) ==
    /\ calls' = cs
    /\ error' = Thrown(cs)
    /\ engine' = EngineRun(engine, cs)
    /\ all_ok' = (all_ok /\ AllSuccess(cs))
    /\ last_global' = GlobalAfter(last_global, cs)
    /\ lastOp' = op

Abort(op) ==
    /\ aborted' = TRUE
    /\ calls' = << >>
    /\ error' = NoError
    /\ lastOp' = op
    /\ UNCHANGED << fft_ref_count, adapters, expr, engine, all_ok, last_global >>

\* ------------------------------------------------------------------ Init
Init ==
    /\ fft_ref_count = 0
    /\ adapters = [a \in Ids |-> NoObject]
    /\ expr = NoExpr
    /\ engine = [up |-> FALSE, plans |-> << >>, next |-> 1]
    /\ calls = << >>
    /\ error = NoError
    /\ aborted = FALSE
    /\ lastOp = NoOp
    /\ all_ok = TRUE
    /\ last_global = "none"
    /\ threads = [t \in Ids |-> Idle]
    /\ raced = NoRace

\* --------------------------------------------------- FFT::FFT / FFT::init
\* variant: ++fft_ref_count == 0, the value after the increment is compared
NeedsSetup_PreIncrement(count) == Inc(count) = 0
\* fft_ref_count++ == 0: the value before the increment is compared
NeedsSetup(count) == count = 0

\* variant: the layout of the plan is left at the engine's default
init_calls_NoLayout(lengths, h, s) ==
    (IF NeedsSetup(fft_ref_count)
     THEN << EngineCall("clAmdFftSetup", 0, s[1]) >> ELSE << >>)
    \o << [EngineCall("clAmdFftCreateDefaultPlan", h, s[2])
              EXCEPT !.lengths = lengths],
          [EngineCall("clAmdFftSetPlanPrecision", h, s[3])
              EXCEPT !.arg = "CLFFT_SINGLE"] >>
\* the calls of init on its plan, after the setup
plan_calls(lengths, h, s) ==
    << [EngineCall("clAmdFftCreateDefaultPlan", h, s[2])
           EXCEPT !.lengths = lengths],
       [EngineCall("clAmdFftSetPlanPrecision", h, s[3])
           EXCEPT !.arg = "CLFFT_SINGLE"],
       [EngineCall("clAmdFftSetLayout", h, s[4])
           EXCEPT !.arg = "CLFFT_COMPLEX_INTERLEAVED"] >>
\* the engine calls init makes when none fails, in order
init_calls(lengths, h, s) ==
    (IF NeedsSetup(fft_ref_count)
     THEN << EngineCall("clAmdFftSetup", 0, s[1]) >> ELSE << >>)
    \o plan_calls(lengths, h, s)

\* variant: an empty array of lengths is let through
ValidLengths_NoLowerBound(lengths) == Len(lengths) <= 3
\* assert(lengths.size() >= 1 && lengths.size() <= 3)
ValidLengths(lengths) == Len(lengths) >= 1 /\ Len(lengths) <= 3

\* objects are numbered in the order their construction is attempted
NextId == Cardinality({a \in Ids : adapters[a].state # "Unconfigured"}) + 1

\* variant: a construction that throws takes its increment back
init_count_Unwound(done) ==
    IF Thrown(done) = NoError THEN Inc(fft_ref_count) ELSE fft_ref_count
\* the count after init: fft_ref_count++ comes before the first engine call
\* and nothing on the way out of a throwing init touches the count again
init_count(done) == Inc(fft_ref_count)

\* variant: the default of the direction parameter is inverse
DirParam_DefaultInverse(d) == IF d = Omitted THEN inverse ELSE d
\* fft_direction dir = forward: the value of the parameter dir
DirParam(d) == IF d = Omitted THEN forward ELSE d

ConstructOp(a, lengths, d) ==
    [Op("construct", a) EXCEPT !.ndim = Len(lengths), !.dir = d]

\* a constructor: queues(queues), plan(0), dir(dir), then init(lengths).  A
\* constructor that throws leaves no object, and its destructor never runs.
Construct(a, lengths, d) ==
    /\ ~aborted
    /\ Sequential
    /\ a = NextId
    /\ IF ~ValidLengths(lengths)
       THEN Abort(ConstructOp(a, lengths, d))
       ELSE \E s \in InitStatuses :
              LET done == Executed(init_calls(lengths, engine.next, s))
              IN /\ fft_ref_count' = init_count(done)
                 /\ adapters' = [adapters EXCEPT ![a] =
                        IF Thrown(done) = NoError
                        THEN [state |-> "Configured", plan |-> engine.next,
                              dir |-> DirParam(d)]
                        ELSE [NoObject EXCEPT !.state = "Failed"]]
                 /\ Record(ConstructOp(a, lengths, d), done)
                 /\ UNCHANGED << expr, aborted >>

\* ------------------------------------------------------------ FFT::~FFT
\* the calls and the count of the destructor of an object with plan p
destroy_plan(p, s) ==
    IF p # 0
    THEN Executed(<< [EngineCall("clAmdFftDestroyPlan", p, s[1])
                         EXCEPT !.loc = LocationOf(engine, p)] >>)
    ELSE << >>

destroy_count(p, s) ==
    IF Thrown(destroy_plan(p, s)) # NoError THEN fft_ref_count
    ELSE Dec(fft_ref_count)

\* variant: the destructor never tears the engine down
destroy_calls_NoTeardown(p, s) == destroy_plan(p, s)
\* the calls the destructor makes
destroy_calls(p, s) ==
    destroy_plan(p, s)
    \o (IF Thrown(destroy_plan(p, s)) = NoError /\ destroy_count(p, s) = 0
        THEN << EngineCall("clAmdFftTeardown", 0, s[2]) >> ELSE << >>)

Destroy(a) ==
    /\ ~aborted
    /\ Sequential
    /\ adapters[a].state = "Configured"
    /\ \E s \in PairStatuses :
         /\ s[1] \in StatusesFor(engine, adapters[a].plan)
         /\ fft_ref_count' = destroy_count(adapters[a].plan, s)
         /\ adapters' = [adapters EXCEPT ![a] = [NoObject EXCEPT !.state = "Destroyed"]]
         /\ Record([Op("destroy", a) EXCEPT !.round_trip =
                        IF lastOp.op = "construct" /\ lastOp.id = a
                        THEN lastOp.pre ELSE -1],
                   destroy_calls(adapters[a].plan, s))
         /\ UNCHANGED << expr, aborted >>

\* ---------------------------------------------------------- FFT::execute
\* variant: the transform is always configured out-of-place
ResultLocation_NoInplace(input_buf, output_buf) == "CLFFT_OUTOFPLACE"
\* input_buf == output_buf ? CLFFT_INPLACE : CLFFT_OUTOFPLACE
ResultLocation(input_buf, output_buf) ==
    IF input_buf = output_buf THEN "CLFFT_INPLACE" ELSE "CLFFT_OUTOFPLACE"

set_location(p, input, output, s) ==
    [EngineCall("clAmdFftSetResultLocation", p, s[1])
        EXCEPT !.arg = ResultLocation(input, output),
               !.loc = LocationOf(engine, p)]

\* the calls execute makes when none fails; the enqueue call records the
\* result location the plan has when the transform is enqueued
execute_calls(p, d, nq, input, output, s) ==
    LET eng1 == EngineAfter(engine, set_location(p, input, output, s))
    IN << set_location(p, input, output, s),
          [EngineCall("clAmdFftEnqueueTransform", p, s[2])
              EXCEPT !.dir = d, !.nq = nq, !.input = input, !.output = output,
                     !.loc = LocationOf(eng1, p)] >>

\* variant: the assertion on append is missing
AssertNoAppend_Off(append) == TRUE
\* assert(!append)
AssertNoAppend(append) == ~append
\* variant: only an empty queue vector is refused
AssertOneQueue_NonEmpty(nq) == nq >= 1
\* assert(queues.size() == 1)
AssertOneQueue(nq) == nq = 1

\* execute<false, append>(input, output) on an object with fields p, d and a
\* queue vector of size nq
execute(op, p, d, nq, input, output, append) ==
    IF ~AssertNoAppend(append) THEN Abort(op)
    ELSE IF ~AssertOneQueue(nq) THEN Abort(op)
    ELSE \E s \in PairStatuses :
           /\ s[1] \in StatusesFor(engine, p)
           /\ s[2] \in StatusesFor(EngineAfter(engine, set_location(p, input, output, s)), p)
           /\ Record(op, Executed(execute_calls(p, d, nq, input, output, s)))
           /\ UNCHANGED << fft_ref_count, adapters, expr, aborted >>

ExecOp(name, a, nq, input, output, append) ==
    [Op(name, a) EXCEPT !.input = input, !.output = output, !.append = append,
                        !.nq = nq]

\* ------------------------------------------- FFT::operator() and fft_expr
\* variant: operator() already touches the plan
Call_Eager(a, x) ==
    /\ ~aborted
    /\ Sequential
    /\ adapters[a].state = "Configured"
    /\ expr = NoExpr
    /\ expr' = [f |-> a, input |-> x]
    /\ Record(ExecOp("call", a, 0, x, 0, FALSE),
              << set_location(adapters[a].plan, x, x, << CL_SUCCESS >>) >>)
    /\ UNCHANGED << fft_ref_count, adapters, aborted >>
\* operator()(x): return {*this, x}
Call(a, x) ==
    /\ ~aborted
    /\ Sequential
    /\ adapters[a].state = "Configured"
    /\ expr = NoExpr
    /\ expr' = [f |-> a, input |-> x]
    /\ Record(ExecOp("call", a, 0, x, 0, FALSE), << >>)
    /\ UNCHANGED << fft_ref_count, adapters, aborted >>

\* fft_expr::apply<false, append>(output) while the FFT it refers to lives
\* evaluates f.execute<false, append>(input, output); nq is the size the
\* caller's queue vector (FFT::queues refers to it) has at this moment
Apply(output, append, nq) ==
    /\ ~aborted
    /\ Sequential
    /\ expr # NoExpr
    /\ adapters[expr.f].state = "Configured"
    /\ execute(ExecOp("apply", expr.f, nq, expr.input, output, append),
               adapters[expr.f].plan, adapters[expr.f].dir, nq,
               expr.input, output, append)

\* the fft_expr value goes out of scope
Drop ==
    /\ ~aborted
    /\ Sequential
    /\ expr # NoExpr
    /\ expr' = NoExpr
    /\ Record(Op("drop", expr.f), << >>)
    /\ UNCHANGED << fft_ref_count, adapters, aborted >>

\* ------------------------------------------------------------------ Spec
Next ==
    \/ \E a \in Ids, l \in LengthArrays, d \in DirArgs : Construct(a, l, d)
    \/ \E a \in Ids : Destroy(a)
    \/ \E a \in Ids, x \in Bufs : Call(a, x)
    \/ \E y \in Bufs, ap \in BOOLEAN, nq \in 0..MaxQueues : Apply(y, ap, nq)
    \/ Drop

Spec == Init /\ [][Next]_vars

\* ------------------------------------------- uses the class does not prevent
\* the implicit copy constructor FFT(const FFT&): memberwise copy of queues,
\* plan and dir; init is not run, fft_ref_count is not touched
CopyConstruct(a, src) ==
    /\ ~aborted
    /\ Sequential
    /\ a = NextId
    /\ adapters[src].state = "Configured"
    /\ adapters' = [adapters EXCEPT ![a] = adapters[src]]
    /\ Record(Op("copy", a), << >>)
    /\ UNCHANGED << fft_ref_count, expr, aborted >>

\* fft_expr::apply after the FFT that fft_expr::f refers to was destroyed: the
\* reference dangles, and the plan, the direction and the queue vector that
\* execute reads through it are indeterminate
ApplyDangling(output, append, nq, p, d) ==
    /\ ~aborted
    /\ Sequential
    /\ expr # NoExpr
    /\ adapters[expr.f].state = "Destroyed"
    /\ execute(ExecOp("apply", expr.f, nq, expr.input, output, append),
               p, d, nq, expr.input, output, append)

NextAnyUse ==
    \/ Next
    \/ \E a \in Ids, src \in Ids : CopyConstruct(a, src)
    \/ \E y \in Bufs, ap \in BOOLEAN, nq \in 0..MaxQueues,
          p \in 0..MaxAdapters, d \in Directions : ApplyDangling(y, ap, nq, p, d)

SpecAnyUse == Init /\ [][NextAnyUse]_vars

State(a) == adapters[a].state
LiveIds == {a \in Ids : State(a) = "Configured"}

\* ----------------------------------------------------- overlapping use
\* Two or more threads, thread t constructing and later destroying object t
\* with FFT(queues, length): fft_ref_count is a plain size_t, so
\* fft_ref_count++ and --fft_ref_count are a read and a later write of the
\* count, and the steps of the threads interleave.  An engine call is one
\* step.
Busy(t) == threads[t].pc # "idle"
Goto(t, pc, local) ==
    threads' = [threads EXCEPT ![t] = [pc |-> pc, local |-> local]]
Begins(t) ==
    raced' = [raced EXCEPT !.overlapped = @ \/ \E u \in Ids \ {t} : Busy(u)]

\* variant: the value before the decrement is compared
NeedsTeardown_OldValue(local) == local = 0
\* --fft_ref_count == 0: the value after the decrement is compared
NeedsTeardown(local) == Dec(local) = 0

\* the member initialisers queues(queues), plan(0), dir(dir); init begins
InitBegin(t, d) ==
    /\ ~aborted
    /\ ~Busy(t)
    /\ State(t) = "Unconfigured"
    /\ adapters' = [adapters EXCEPT ![t] =
           [state |-> "Constructing", plan |-> 0, dir |-> DirParam(d)]]
    /\ Goto(t, "init_read", 0)
    /\ Begins(t)
    /\ Record(ConstructOp(t, <<8>>, d), << >>)
    /\ UNCHANGED << fft_ref_count, expr, aborted >>

\* fft_ref_count++: the read
InitRead(t) ==
    /\ threads[t].pc = "init_read"
    /\ Goto(t, "init_write", fft_ref_count)
    /\ Record(Op("construct", t), << >>)
    /\ UNCHANGED << fft_ref_count, adapters, expr, aborted, raced >>

\* fft_ref_count++: the write, and the comparison of the value read
InitWrite(t) ==
    /\ threads[t].pc = "init_write"
    /\ fft_ref_count' = Inc(threads[t].local)
    /\ Goto(t, IF NeedsSetup(threads[t].local) THEN "init_setup" ELSE "init_plan",
            threads[t].local)
    /\ Record(Op("construct", t), << >>)
    /\ UNCHANGED << adapters, expr, aborted, raced >>

\* check_error(clAmdFftSetup(NULL))
InitSetup(t, status) ==
    /\ threads[t].pc = "init_setup"
    /\ raced' = [raced EXCEPT !.setup_twice = @ \/ last_global = "clAmdFftSetup"]
    /\ Record(Op("construct", t), << EngineCall("clAmdFftSetup", 0, status) >>)
    /\ IF check_error(status)
       THEN /\ adapters' = [adapters EXCEPT ![t] = [NoObject EXCEPT !.state = "Failed"]]
            /\ Goto(t, "idle", 0)
       ELSE /\ Goto(t, "init_plan", threads[t].local)
            /\ UNCHANGED adapters
    /\ UNCHANGED << fft_ref_count, expr, aborted >>

\* the rest of init: plan creation, precision, layout (s[1], the status of
\* the setup, is not used here)
InitPlan(t, s) ==
    /\ threads[t].pc = "init_plan"
    /\ s[1] = CL_SUCCESS
    /\ LET done == Executed(plan_calls(<<8>>, engine.next, s))
       IN /\ adapters' = [adapters EXCEPT ![t] =
                 IF Thrown(done) = NoError
                 THEN [@ EXCEPT !.state = "Configured", !.plan = engine.next]
                 ELSE [NoObject EXCEPT !.state = "Failed"]]
          /\ Record(Op("construct", t), done)
    /\ Goto(t, "idle", 0)
    /\ UNCHANGED << fft_ref_count, expr, aborted, raced >>

\* ~FFT begins: if(plan) check_error(clAmdFftDestroyPlan(&plan))
DtorBegin(t, status) ==
    /\ ~aborted
    /\ ~Busy(t)
    /\ State(t) = "Configured"
    /\ status \in StatusesFor(engine, adapters[t].plan)
    /\ Begins(t)
    /\ Record(Op("destroy", t), destroy_plan(adapters[t].plan, << status >>))
    /\ IF Thrown(destroy_plan(adapters[t].plan, << status >>)) # NoError
       THEN /\ adapters' = [adapters EXCEPT ![t] = [NoObject EXCEPT !.state = "Destroyed"]]
            /\ Goto(t, "idle", 0)
       ELSE /\ adapters' = [adapters EXCEPT ![t].state = "Destroying"]
            /\ Goto(t, "dtor_read", 0)
    /\ UNCHANGED << fft_ref_count, expr, aborted >>

\* --fft_ref_count: the read
DtorRead(t) ==
    /\ threads[t].pc = "dtor_read"
    /\ Goto(t, "dtor_write", fft_ref_count)
    /\ Record(Op("destroy", t), << >>)
    /\ UNCHANGED << fft_ref_count, adapters, expr, aborted, raced >>

\* --fft_ref_count: the write, and the comparison of the value written
DtorWrite(t) ==
    /\ threads[t].pc = "dtor_write"
    /\ fft_ref_count' = Dec(threads[t].local)
    /\ IF NeedsTeardown(threads[t].local)
       THEN /\ Goto(t, "dtor_teardown", threads[t].local)
            /\ UNCHANGED adapters
       ELSE /\ Goto(t, "idle", 0)
            /\ adapters' = [adapters EXCEPT ![t] = [NoObject EXCEPT !.state = "Destroyed"]]
    /\ Record(Op("destroy", t), << >>)
    /\ UNCHANGED << expr, aborted, raced >>

\* check_error(clAmdFftTeardown())
DtorTeardown(t, status) ==
    /\ threads[t].pc = "dtor_teardown"
    /\ Record(Op("destroy", t), << EngineCall("clAmdFftTeardown", 0, status) >>)
    /\ adapters' = [adapters EXCEPT ![t] = [NoObject EXCEPT !.state = "Destroyed"]]
    /\ Goto(t, "idle", 0)
    /\ UNCHANGED << fft_ref_count, expr, aborted, raced >>

NextOverlap ==
    \/ \E t \in Ids, d \in DirArgs : InitBegin(t, d)
    \/ \E t \in Ids : InitRead(t)
    \/ \E t \in Ids : InitWrite(t)
    \/ \E t \in Ids, status \in Statuses : InitSetup(t, status)
    \/ \E t \in Ids, s \in InitStatuses : InitPlan(t, s)
    \/ \E t \in Ids, status \in Statuses : DtorBegin(t, status)
    \/ \E t \in Ids : DtorRead(t)
    \/ \E t \in Ids : DtorWrite(t)
    \/ \E t \in Ids, status \in Statuses : DtorTeardown(t, status)

SpecOverlap == Init /\ [][NextOverlap]_vars

\* ---------------------------------------------------------------- claims
Call_(fn) == {i \in 1..Len(calls) : calls[i].fn = fn}

\* C1: with every engine call succeeding, constructing an FFT and then
\* destroying it leaves fft_ref_count at the value it had before the
\* construction, whatever that value was.
C1_ConstructDestroyRestoresCount ==
    (lastOp.op = "destroy" /\ lastOp.round_trip # -1 /\ all_ok)
        => fft_ref_count = lastOp.round_trip

\* C1 witness: an object was constructed and at once destroyed while another
\* object was alive, every engine call succeeding.
C1_Witness ==
    /\ lastOp.op = "destroy" /\ lastOp.round_trip = 1 /\ all_ok
    /\ LiveIds # {}

\* C2: from count 0 and with every engine call succeeding, N constructions
\* in a row bring fft_ref_count to N, and once all of them are destroyed, in
\* whatever order, it is 0 again.
C2_CountUpThenDown ==
    all_ok =>
        /\ (\A a \in Ids : State(a) # "Destroyed")
              => fft_ref_count = Cardinality(LiveIds)
        /\ (\A a \in Ids : State(a) # "Configured") => fft_ref_count = 0

\* C2 witness: every object was constructed and all are destroyed again, the
\* first constructed one last.
C2_Witness ==
    /\ all_ok
    /\ \A a \in Ids : State(a) = "Destroyed"
    /\ lastOp.op = "destroy" /\ lastOp.id = 1
    /\ fft_ref_count = 0

\* C3: clAmdFftSetup is called exactly by the constructions that move the
\* count from 0 to 1 and clAmdFftTeardown exactly by the destructions that
\* move it from 1 to 0; the two calls alternate, starting with a setup, and
\* (when no call has failed) setup is not called on an engine that is set up.
C3_SetupTeardownAlternate ==
    [][ /\ Has(calls', "clAmdFftSetup")
            <=> (lastOp'.op = "construct" /\ fft_ref_count = 0
                 /\ fft_ref_count' = 1)
        /\ Has(calls', "clAmdFftTeardown")
            <=> (lastOp'.op = "destroy" /\ fft_ref_count = 1
                 /\ fft_ref_count' = 0)
        /\ Has(calls', "clAmdFftSetup") => last_global # "clAmdFftSetup"
        /\ Has(calls', "clAmdFftTeardown") => last_global = "clAmdFftSetup"
        /\ (Has(calls', "clAmdFftSetup") /\ all_ok) => ~engine.up
      ]_vars

\* C3 witness: the construction of a later object calls setup again, after a
\* teardown.
C3_Witness ==
    /\ lastOp.op = "construct" /\ lastOp.id > 1
    /\ Has(calls, "clAmdFftSetup")
    /\ last_global = "clAmdFftSetup"

\* C4: whenever execute enqueues a transform, the result location the plan
\* has at that moment is in-place if the input and output buffer handles of
\* the call are the same handle and out-of-place otherwise.
C4_ResultLocationMatchesBuffers ==
    \A i \in Call_("clAmdFftEnqueueTransform") :
        /\ lastOp.op = "apply"
        /\ calls[i].input = lastOp.input /\ calls[i].output = lastOp.output
        /\ calls[i].loc = IF lastOp.input = lastOp.output
                          THEN "CLFFT_INPLACE" ELSE "CLFFT_OUTOFPLACE"

\* C4 witness: an in-place execute enqueues on a plan that the execute
\* before it had left out-of-place.
C4_Witness ==
    /\ \E i \in Call_("clAmdFftEnqueueTransform") : calls[i].loc = "CLFFT_INPLACE"
    /\ \E i \in Call_("clAmdFftSetResultLocation") : calls[i].loc = "CLFFT_OUTOFPLACE"
    /\ lastOp.input = lastOp.output

\* C5: execute with append = true is rejected before any engine call: no
\* result-location call, no enqueue, count and plans unchanged.
C5_AppendRejected ==
    [][ (lastOp'.op = "apply" /\ lastOp'.append)
          => /\ aborted'
             /\ calls' = << >>
             /\ fft_ref_count' = fft_ref_count
             /\ engine' = engine
             /\ adapters' = adapters ]_vars

\* C5 witness: execute was called with append = true and exactly one queue.
C5_Witness ==
    lastOp.op = "apply" /\ lastOp.append /\ lastOp.nq = 1 /\ aborted

\* C6: execute on an FFT whose queue vector holds no queue or more than one
\* is rejected: nothing is enqueued and no plan's result location changes.
C6_QueueCountRejected ==
    [][ (lastOp'.op = "apply" /\ lastOp'.nq # 1)
          => /\ aborted'
             /\ calls' = << >>
             /\ engine' = engine ]_vars

\* C6 witness: execute was called without append with two queues configured.
C6_Witness ==
    lastOp.op = "apply" /\ ~lastOp.append /\ lastOp.nq = 2 /\ aborted

\* C7: an engine call that returns a failure is the last call of its
\* operation and raises cl::Error with that status and "AMD FFT"; no call is
\* made twice; an operation whose calls all succeeded raises nothing.
C7_FailureRaisesAndStops ==
    /\ \A i \in 1..Len(calls) :
          calls[i].status # CL_SUCCESS
             => /\ i = Len(calls)
                /\ error = [code |-> calls[i].status, what |-> "AMD FFT"]
    /\ \A i \in 1..Len(calls) : \A j \in 1..Len(calls) :
          calls[i].fn = calls[j].fn => i = j
    /\ AllSuccess(calls) => error = NoError
    /\ (lastOp.op = "construct" /\ error # NoError)
          => State(lastOp.id) = "Failed"

\* C7 witness: plan creation failed during a construction.
C7_Witness ==
    /\ lastOp.op = "construct"
    /\ \E i \in Call_("clAmdFftCreateDefaultPlan") : calls[i].status # CL_SUCCESS
    /\ error.what = "AMD FFT"

\* C8 (as claimed): every destruction destroys the plan, decrements the
\* count by exactly one and tears the engine down when the count reaches 0,
\* whatever status clAmdFftDestroyPlan returns.
C8_DestroyAlwaysDecrements ==
    [][ lastOp'.op = "destroy"
          => /\ Has(calls', "clAmdFftDestroyPlan")
             /\ fft_ref_count' = fft_ref_count - 1
             /\ fft_ref_count' = 0 => Has(calls', "clAmdFftTeardown") ]_vars

C10_ExclusivePlanOwnership ==
    /\ \A a \in LiveIds : adapters[a].plan # 0 /\ Live(engine, adapters[a].plan)
    /\ \A a \in LiveIds : \A b \in LiveIds :
          a # b => adapters[a].plan # adapters[b].plan
    /\ \A i \in Call_("clAmdFftDestroyPlan") : calls[i].loc # "-"
    /\ fft_ref_count <= MaxAdapters

\* C11: the direction of an FFT is the one its constructor was given
\* (forward when none was given), it never changes while the FFT lives, and
\* every transform enqueued through the FFT is enqueued with it.
C11_DirectionFixedAtConstruction ==
    [][ /\ \A i \in {j \in 1..Len(calls') : calls'[j].fn = "clAmdFftEnqueueTransform"} :
              calls'[i].dir = adapters[lastOp'.id].dir
        /\ (lastOp'.op = "construct" /\ adapters'[lastOp'.id].state = "Configured")
              => adapters'[lastOp'.id].dir =
                    IF lastOp'.dir = Omitted THEN forward ELSE lastOp'.dir
        /\ \A a \in Ids :
              (State(a) = "Configured" /\ adapters'[a].state = "Configured")
                 => adapters'[a].dir = adapters[a].dir
      ]_vars

\* C11 witness: the first FFT, an inverse one, enqueues a transform after a
\* second FFT was constructed and destroyed.
C11_Witness ==
    /\ lastOp.op = "apply" /\ lastOp.id = 1
    /\ \E i \in Call_("clAmdFftEnqueueTransform") :
          calls[i].dir = inverse /\ calls[i].status = CL_SUCCESS
    /\ \E a \in Ids : State(a) = "Destroyed"

\* C12: when constructors or destructors of two FFTs overlap, the global
\* state can end up corrupted (the witness is such a state); as long as no
\* two of them have overlapped and no engine call has failed it is intact:
\* setup is never called twice in a row, teardown is never called while an
\* FFT is alive, and between operations the count is the number of live
\* FFTs.
C12_CorruptionNeedsOverlap ==
    (all_ok /\ ~raced.overlapped)
        => /\ ~raced.setup_twice
           /\ Has(calls, "clAmdFftTeardown") => LiveIds = {}
           /\ (\A t \in Ids : ~Busy(t)) => fft_ref_count = Cardinality(LiveIds)

\* C12 witness: no engine call failed; setup was called twice in a row, the
\* destructor of one FFT has just called teardown while another FFT is
\* alive and holds a plan, and the count is not the number of live FFTs.
C12_Witness ==
    /\ all_ok
    /\ raced.overlapped /\ raced.setup_twice
    /\ Has(calls, "clAmdFftTeardown")
    /\ \E a \in LiveIds : adapters[a].plan # 0
    /\ \A t \in Ids : ~Busy(t)
    /\ fft_ref_count # Cardinality(LiveIds)

\* C13: a construction with no lengths or with more than three is stopped
\* by the assertion before anything happened: the count is not incremented,
\* no engine call is made and no object comes into being.
C13_BadLengthsRejected ==
    (lastOp.op = "construct" /\ (lastOp.ndim < 1 \/ lastOp.ndim > 3))
        => /\ aborted
           /\ calls = << >>
           /\ fft_ref_count = lastOp.pre
           /\ State(lastOp.id) = "Unconfigured"

\* C13 witness: a construction with four lengths was attempted while an FFT
\* was alive.
C13_Witness ==
    /\ lastOp.op = "construct" /\ lastOp.ndim = 4 /\ aborted
    /\ lastOp.pre = 1 /\ LiveIds # {}

\* C14 (as claimed): clAmdFftCreateDefaultPlan is only called while the
\* engine is set up and a plan only exists while it is, also after
\* operations in which an engine call failed.
C14_PlanOnlyWhileSetUp ==
    /\ Has(calls, "clAmdFftCreateDefaultPlan") => engine.up
    /\ DOMAIN engine.plans # {} => engine.up

\* C15: a construction that throws after the increment leaves the count one
\* higher than it found it and calls neither clAmdFftDestroyPlan nor
\* clAmdFftTeardown; from then on the count stays above the number of live
\* FFTs, so it is not 0 when all of them are destroyed and teardown is never
\* called again.
C15_FailedConstructionNotUnwound ==
    LET FailedIds == {a \in Ids : State(a) = "Failed"}
    IN /\ (lastOp.op = "construct" /\ error # NoError)
            => /\ State(lastOp.id) = "Failed"
               /\ fft_ref_count = lastOp.pre + 1
               /\ ~Has(calls, "clAmdFftDestroyPlan")
               /\ ~Has(calls, "clAmdFftTeardown")
       /\ fft_ref_count >= Cardinality(LiveIds) + Cardinality(FailedIds)
       /\ FailedIds # {} => ~Has(calls, "clAmdFftTeardown")

\* C15 witness: after a construction that failed, the last live FFT was
\* destroyed without an error and the count is 1.
C15_Witness ==
    /\ \E a \in Ids : State(a) = "Failed"
    /\ LiveIds = {}
    /\ lastOp.op = "destroy" /\ error = NoError
    /\ fft_ref_count = 1

\* C16: a transform is enqueued only right after a successful
\* clAmdFftSetResultLocation on the same plan in the same execute, on a plan
\* whose precision is single and whose layout is interleaved; a construction
\* that succeeds ends with plan creation, set-precision and set-layout on
\* its plan, in this order.
C16_EnqueueOnConfiguredPlan ==
    /\ \A i \in Call_("clAmdFftEnqueueTransform") :
          /\ i > 1
          /\ calls[i - 1].fn = "clAmdFftSetResultLocation"
          /\ calls[i - 1].plan = calls[i].plan
          /\ calls[i - 1].status = CL_SUCCESS
          /\ Live(engine, calls[i].plan)
          /\ engine.plans[calls[i].plan].precision = "CLFFT_SINGLE"
          /\ engine.plans[calls[i].plan].layout = "CLFFT_COMPLEX_INTERLEAVED"
    /\ (lastOp.op = "construct" /\ State(lastOp.id) = "Configured")
          => LET n == Len(calls)
             IN /\ n >= 3
                /\ calls[n - 2].fn = "clAmdFftCreateDefaultPlan"
                /\ calls[n - 1].fn = "clAmdFftSetPlanPrecision"
                /\ calls[n - 1].arg = "CLFFT_SINGLE"
                /\ calls[n].fn = "clAmdFftSetLayout"
                /\ calls[n].arg = "CLFFT_COMPLEX_INTERLEAVED"
                /\ \A k \in (n - 2)..n :
                      /\ calls[k].plan = adapters[lastOp.id].plan
                      /\ calls[k].status = CL_SUCCESS
    /\ \A a \in LiveIds :
          /\ Live(engine, adapters[a].plan)
          /\ engine.plans[adapters[a].plan].precision = "CLFFT_SINGLE"
          /\ engine.plans[adapters[a].plan].layout = "CLFFT_COMPLEX_INTERLEAVED"

\* C16 witness: a transform was enqueued on the plan of the second FFT, and
\* the engine holds a plan that never got its layout.
C16_Witness ==
    /\ lastOp.op = "apply" /\ lastOp.id = 2
    /\ \E i \in Call_("clAmdFftEnqueueTransform") : calls[i].status = CL_SUCCESS
    /\ \E p \in DOMAIN engine.plans : engine.plans[p].layout = "default"

\* C17: operator() makes no engine call and changes neither the count nor
\* any FFT nor the engine, it only yields the fft_expr of this FFT and the
\* input; an apply of that fft_expr is one execute of the same FFT with the
\* input of the fft_expr and the target as output: at most one
\* result-location call and one enqueue, both on the plan of that FFT.
C17_CallDefersToApply ==
    [][ /\ lastOp'.op = "call"
              => /\ calls' = << >>
                 /\ fft_ref_count' = fft_ref_count
                 /\ adapters' = adapters
                 /\ engine' = engine
                 /\ expr' = [f |-> lastOp'.id, input |-> lastOp'.input]
        /\ lastOp'.op = "apply"
              => /\ lastOp'.id = expr.f /\ lastOp'.input = expr.input
                 /\ expr' = expr
                 /\ Len(calls') <= 2
                 /\ Cardinality({j \in 1..Len(calls') :
                        calls'[j].fn = "clAmdFftEnqueueTransform"}) <= 1
                 /\ \A j \in 1..Len(calls') :
                       /\ calls'[j].plan = adapters[expr.f].plan
                       /\ calls'[j].fn \in {"clAmdFftSetResultLocation",
                                            "clAmdFftEnqueueTransform"}
                       /\ calls'[j].fn = "clAmdFftEnqueueTransform"
                             => /\ calls'[j].input = expr.input
                                /\ calls'[j].output = lastOp'.output
      ]_vars

\* C17 witness: an fft_expr was evaluated into another target than its
\* input, on a plan an earlier execute had used, and a transform was
\* enqueued.
C17_Witness ==
    /\ lastOp.op = "apply" /\ expr # NoExpr
    /\ lastOp.input # lastOp.output
    /\ Len(calls) = 2 /\ error = NoError
    /\ calls[1].loc # "default"
    /\ engine.plans[adapters[expr.f].plan].location = "CLFFT_OUTOFPLACE"
    /\ LiveIds = {expr.f}

\* C18: as long as no engine call has failed, the count is the number of
\* live FFTs and the engine is set up exactly when that number is not 0; an
\* execute, whether it succeeds, throws or is stopped by an assertion,
\* leaves the count as it found it.
C18_CountIsLiveAdapters ==
    /\ all_ok => /\ fft_ref_count = Cardinality(LiveIds)
                 /\ engine.up <=> fft_ref_count > 0
    /\ lastOp.op = "apply" => fft_ref_count = lastOp.pre

\* C18 witness: no engine call has failed, one FFT was destroyed, and a
\* transform was enqueued through the one that is left.
C18_Witness ==
    /\ all_ok
    /\ lastOp.op = "apply" /\ Len(calls) = 2
    /\ \E a \in Ids : State(a) = "Destroyed"
    /\ Cardinality(LiveIds) = 1 /\ fft_ref_count = 1 /\ engine.up

====
